---- MODULE Spec2Model ----
(***************************************************************************)
(* Midnyt menu and inventory checker (src/app.py).                         *)
(*                                                                         *)
(* The model follows the Calculate handler and the functions it calls:     *)
(* the two paginated fetches (getAllProducts, getInventory), the lookup    *)
(* builder (buildInventoryLookup), the location resolver                   *)
(* (getLocationNameAndId), the category walk (getItemsInChannelMenu and    *)
(* processSubCategory) and the reconciliation (checkMenuItemsInventory).   *)
(*                                                                         *)
(* JSON objects are functions from key names to values, so that            *)
(* dict.get(key, default) is Get below and a key that is missing differs   *)
(* from a key that is present with a null value.  Python's None is the     *)
(* string None.  PLUs and location ids are strings, category and product   *)
(* ids are positive integers (0 is the empty id), names that are compared  *)
(* by substring are sequences of one-character strings.                    *)
(*                                                                         *)
(* The remote API is the environment: every request draws its response     *)
(* from a small set when it is made, and the responses received are kept   *)
(* in history variables (pResps, iResps, walk, lastFetch) that the code    *)
(* never reads.                                                            *)
(***************************************************************************)
EXTENDS Integers, Sequences, FiniteSets, TLC

VARIABLES
    \* pure-function harness
    call,                   \* the function applied and its arguments
    ret,                    \* what it returned
    \* getAllProducts
    pState,                 \* "idle", "running", "returned" or "raised"
    page,                   \* its local page
    all_products,           \* its local all_products
    pReqs,                  \* history: the page numbers requested, in order
    pResps,                 \* history: the responses received, in order
    pResult,                \* the value handed to the caller
    \* getInventory
    iState,
    inv_page,               \* its local page
    inventory_items,        \* its local inventory_items
    iReqs,
    iResps,
    iResult,
    \* getItemsInChannelMenu and processSubCategory
    fState,                 \* "idle", "called", "running", "returned" or "raised"
    location_name,          \* the location_name argument
    todo,                   \* channelCategories not yet looped over
    stack,                  \* the categories being processed, innermost last
    all_items,              \* the all_items list
    walk,                   \* history: category fetches and product emissions
    menu_body,              \* history: the body of the menu fetched
    issued,                 \* environment: category ids the feed has handed out
    fResult,                \* the value handed to the caller
    \* the Calculate handler
    phase,
    products_dict,
    inventory_lookup,
    menu_ids,
    idx,                    \* position in menu_ids (1-based)
    menu_name,
    location_info,
    menus_without_location,
    shown,                  \* what was displayed per menu
    lastFetch               \* history: the last single-shot fetch

pureVars == <<call, ret>>
prodVars == <<pState, page, all_products, pReqs, pResps, pResult>>
invVars == <<iState, inv_page, inventory_items, iReqs, iResps, iResult>>
flatVars == <<fState, location_name, todo, stack, all_items, walk, menu_body, issued, fResult>>
mainVars == <<phase, products_dict, inventory_lookup, menu_ids, idx, menu_name,
              location_info, menus_without_location, shown>>
vars == <<pureVars, prodVars, invVars, flatVars, mainVars, lastFetch>>

----------------------------------------------------------------------------
(* Bounds of the model *)

MaxItems == 2       \* items in a menu item list handed to checkMenuItemsInventory
MaxRecords == 2     \* records in an inventory list handed to buildInventoryLookup
MaxLocEntries == 1  \* location entries of one inventory record
MaxNameLen == 2     \* characters of a menu or location name
MaxLocations == 2   \* locations in the locations feed
MaxPages == 4       \* pages of products, and non-empty pages of inventory, the feed holds
MaxPageItems == 2   \* items on one page
MaxCats == 3        \* categories of one menu
MaxKids == 2        \* ids in one channelCategories or subCategories list
MaxDepth == 4       \* nested processSubCategory calls the interpreter's stack allows

----------------------------------------------------------------------------
(* Python values *)

None == "None"

\* Python truthiness of a string-or-None value
Truthy(x) == x # None /\ x # ""

\* dict.get(key, default)
Get(d, key, default) == IF key \in DOMAIN d THEN d[key] ELSE default

SeqsUpTo(S, n) == UNION {[1..k -> S] : k \in 0..n}

Range(s) == {s[i] : i \in DOMAIN s}

Last(s) == s[Len(s)]

NoRet == [returned |-> FALSE]

Returned(v) == [returned |-> TRUE, val |-> v]

\* an HTTP response: the status, whether the body parses as JSON, the parsed body
Response(status, body) == [status_code |-> status, json |-> TRUE, body |-> body]

NotJson(status) == [status_code |-> status, json |-> FALSE, body |-> <<>>]

ErrorBody == [_error |-> "e"]

\* what lastFetch keeps of a single-shot fetch
Fetched(kind, resp) ==
    [kind |-> kind, status_code |-> resp.status_code, json |-> resp.json]

----------------------------------------------------------------------------
(* checkMenuItemsInventory *)

\* the loop body: plu = item.get('PLU'); keep the item when plu is truthy and
\* (plu, location_id) is not in the lookup
ItemIsMissingNoPluGuard(item, location_id, lookup) ==
    <<Get(item, "PLU", None), location_id>> \notin lookup

ItemIsMissing(item, location_id, lookup) ==
    LET plu == Get(item, "PLU", None)
    IN  Truthy(plu) /\ <<plu, location_id>> \notin lookup

RECURSIVE checkMenuItemsInventory(_, _, _)
checkMenuItemsInventory(menu_items, location_id, lookup) ==
    IF menu_items = <<>> THEN <<>>
    ELSE LET item == Head(menu_items)
             rest == checkMenuItemsInventory(Tail(menu_items), location_id, lookup)
         IN  IF ItemIsMissing(item, location_id, lookup)
             THEN <<item>> \o rest
             ELSE rest

----------------------------------------------------------------------------
(* buildInventoryLookup *)

\* the inner loop over one record's location entries
LocationPairs(plu, locations) ==
    {<<plu, Get(locations[i], "location", None)>> :
        i \in {j \in DOMAIN locations : Truthy(Get(locations[j], "location", None))}}

\* one iteration of the outer loop
RecordPairsNoPluGuard(item) ==
    LocationPairs(Get(item, "plu", None), Get(item, "locations", <<>>))

RecordPairs(item) ==
    LET plu == Get(item, "plu", None)
    IN  IF Truthy(plu) THEN LocationPairs(plu, Get(item, "locations", <<>>)) ELSE {}

RECURSIVE buildInventoryLookup(_)
buildInventoryLookup(inventory) ==
    IF inventory = <<>> THEN {}
    ELSE RecordPairs(Head(inventory)) \cup buildInventoryLookup(Tail(inventory))

----------------------------------------------------------------------------
(* getLocationNameAndId *)

Chars == {"a", "A", "b"}

LowerChar(ch) == IF ch = "A" THEN "a" ELSE IF ch = "B" THEN "b" ELSE ch

\* str.lower()
Lower(s) == [i \in DOMAIN s |-> LowerChar(s[i])]

\* needle in hay
Contains(hay, needle) ==
    \E i \in 0..(Len(hay) - Len(needle)) : SubSeq(hay, i + 1, i + Len(needle)) = needle

NameNotFound == <<"N", "a", "m", "e", " ", "N", "o", "t", " ", "F", "o", "u", "n", "d">>

\* the loop's test: location_name and menuName.lower() in location_name.lower()
LocationMatchesCaseSensitive(location, menuName) ==
    LET name == Get(location, "name", <<>>)
    IN  name # <<>> /\ Contains(name, menuName)

LocationMatches(location, menuName) ==
    LET name == Get(location, "name", <<>>)
    IN  name # <<>> /\ Contains(Lower(name), Lower(menuName))

RECURSIVE FirstMatch(_, _)
FirstMatch(locations, menuName) ==
    IF locations = <<>> THEN [name |-> NameNotFound, id |-> None]
    ELSE IF LocationMatches(Head(locations), menuName)
         THEN [name |-> Get(Head(locations), "name", <<>>),
               id |-> Get(Head(locations), "_id", None)]
         ELSE FirstMatch(Tail(locations), menuName)

\* response is the parsed body of GET /locations
getLocationNameAndId(menuName, response) ==
    FirstMatch(Get(response, "_items", <<>>), menuName)

----------------------------------------------------------------------------
(* getAllProducts *)

\* the catalog item with the given id, as the products endpoint returns it
RawProduct(id) ==
    CASE id % 4 = 1 -> [_id |-> id, plu |-> "PLU1", name |-> "n1"]
      [] id % 4 = 2 -> [_id |-> id, plu |-> "", name |-> "n2"]
      [] id % 4 = 3 -> [_id |-> id, name |-> "n3"]
      [] OTHER -> [_id |-> id, plu |-> "PLU2"]

\* page p holds the items (p-1)*MaxPageItems + 1 .. (p-1)*MaxPageItems + n
PageIds(p, n) == [k \in 1..n |-> (p - 1) * MaxPageItems + k]

NextLink == [next |-> [href |-> "next"]]

LinkVariants(more) ==
    {[self |-> [href |-> "self"]]} \cup (IF more THEN {NextLink} ELSE {})

\* what the products endpoint may answer for page p; the feed has at most
\* maxPages pages, so page maxPages carries no continuation
ProductResponses(p, maxPages) ==
    {Response(200, [_items |-> [k \in 1..n |-> RawProduct(PageIds(p, n)[k])], _links |-> l]) :
        n \in 0..MaxPageItems, l \in LinkVariants(p < maxPages)}
    \cup {Response(200, [_items |-> <<RawProduct(PageIds(p, 1)[1])>>]),
          Response(200, [_links |-> [self |-> [href |-> "self"]]]),
          Response(500, ErrorBody),
          Response(200, [_items |-> <<RawProduct(PageIds(p, 1)[1])>>, _links |-> NextLink,
                         error |-> "e"]),
          Response(200, ErrorBody),
          NotJson(200)}

\* lines 131-145: the status check, the parse and the error-field check
PageFailsStatusOnly(resp) == resp.status_code # 200 \/ ~resp.json

PageFails(resp) ==
    \/ resp.status_code # 200
    \/ ~resp.json
    \/ "error" \in DOMAIN resp.body
    \/ "_error" \in DOMAIN resp.body

\* line 150
ProductInfo(item) ==
    [id |-> Get(item, "_id", None), plu |-> Get(item, "plu", None),
     name |-> Get(item, "name", "Unknown")]

\* lines 156-157: response.get("_links", {}).get("next", {}) is truthy
HasNextPage(body) == Get(Get(body, "_links", <<>>), "next", <<>>) # <<>>

\* lines 147-151: the items of the page appended to all_products
ProductsWithPageUnlessLast(products, body) ==
    IF HasNextPage(body)
    THEN products \o [k \in DOMAIN Get(body, "_items", <<>>) |-> ProductInfo(Get(body, "_items", <<>>)[k])]
    ELSE products

ProductsWithPage(products, body) ==
    products \o [k \in DOMAIN Get(body, "_items", <<>>) |-> ProductInfo(Get(body, "_items", <<>>)[k])]

\* one iteration of the while loop: one request and what follows it
ProductsPage(maxPages) ==
    /\ pState = "running"
    /\ \E resp \in ProductResponses(page, maxPages) :
        /\ pReqs' = Append(pReqs, page)
        /\ pResps' = Append(pResps, resp)
        /\ IF PageFails(resp)
           THEN /\ pState' = "raised"
                /\ UNCHANGED <<page, all_products, pResult>>
           ELSE /\ all_products' = ProductsWithPage(all_products, resp.body)
                /\ IF HasNextPage(resp.body)
                   THEN /\ page' = page + 1
                        /\ UNCHANGED <<pState, pResult>>
                   ELSE /\ pState' = "returned"
                        /\ pResult' = Returned(all_products')
                        /\ UNCHANGED page
    /\ UNCHANGED <<pureVars, invVars, flatVars, mainVars, lastFetch>>

CallGetAllProducts ==
    /\ pState = "running"
    /\ page = 1
    /\ all_products = <<>>
    /\ pReqs = <<>>
    /\ pResps = <<>>
    /\ pResult = NoRet

IdleProducts ==
    /\ pState = "idle"
    /\ page = 0
    /\ all_products = <<>>
    /\ pReqs = <<>>
    /\ pResps = <<>>
    /\ pResult = NoRet

----------------------------------------------------------------------------
(* getInventory *)

\* the inventory record with the given id, as the inventory endpoint returns it
RawInventory(id) ==
    CASE id % 3 = 1 -> [_id |-> id, plu |-> "PLU1", locations |-> <<[location |-> "L1"]>>]
      [] id % 3 = 2 -> [_id |-> id, plu |-> "PLU2", locations |-> <<[location |-> "L2"]>>]
      [] OTHER -> [_id |-> id, plu |-> "", locations |-> <<[location |-> "L1"]>>]

\* what the inventory endpoint may answer for page p; the feed has at most
\* maxPages non-empty pages, and every page after the feed's last is empty
InventoryResponses(p, maxPages) ==
    {Response(200, [_items |-> [k \in 1..n |-> RawInventory(PageIds(p, n)[k])], _links |-> l]) :
        n \in 0..(IF p <= maxPages THEN MaxPageItems ELSE 0), l \in LinkVariants(TRUE)}
    \cup {Response(200, <<>>),
          Response(500, ErrorBody),
          Response(200, [_items |-> <<RawInventory(PageIds(p, 1)[1])>>, error |-> "e"]),
          Response(200, ErrorBody),
          NotJson(200)}

\* lines 285-287: items = inventory.get("_items", []); if not items: break
IsLastInventoryPageNoLink(body) ==
    Get(body, "_items", <<>>) = <<>> \/ ~HasNextPage(body)

IsLastInventoryPage(body) == Get(body, "_items", <<>>) = <<>>

\* one iteration of the while loop: one request and what follows it
InventoryPage(maxPages) ==
    /\ iState = "running"
    /\ \E resp \in InventoryResponses(inv_page, maxPages) :
        /\ iReqs' = Append(iReqs, inv_page)
        /\ iResps' = Append(iResps, resp)
        /\ IF PageFails(resp)
           THEN /\ iState' = "raised"
                /\ UNCHANGED <<inv_page, inventory_items, iResult>>
           ELSE IF IsLastInventoryPage(resp.body)
                THEN /\ iState' = "returned"
                     /\ iResult' = Returned(inventory_items)
                     /\ UNCHANGED <<inv_page, inventory_items>>
                ELSE /\ inventory_items' = inventory_items \o resp.body["_items"]
                     /\ inv_page' = inv_page + 1
                     /\ UNCHANGED <<iState, iResult>>
    /\ UNCHANGED <<pureVars, prodVars, flatVars, mainVars, lastFetch>>

CallGetInventory ==
    /\ iState = "running"
    /\ inv_page = 1
    /\ inventory_items = <<>>
    /\ iReqs = <<>>
    /\ iResps = <<>>
    /\ iResult = NoRet

IdleInventory ==
    /\ iState = "idle"
    /\ inv_page = 0
    /\ inventory_items = <<>>
    /\ iReqs = <<>>
    /\ iResps = <<>>
    /\ iResult = NoRet

----------------------------------------------------------------------------
(* getCategoryDetails, getProductInfo, processSubCategory,                  *)
(* getItemsInChannelMenu                                                    *)

NoId == 0

CatName(id) == "cat" \o ToString(id)

Reverse(s) == [i \in DOMAIN s |-> s[Len(s) + 1 - i]]

NonNull(ids) == {i \in DOMAIN ids : ids[i] # NoId}

Smaller(a, b) == IF a < b THEN a ELSE b

\* the id lists a menu or category of a tree may carry when n ids have been
\* handed out: up to MaxKids ids nobody else refers to, in either order, with
\* or without an empty id in front
KidLists(n, maxCats) ==
    UNION {LET fresh == [i \in 1..k |-> n + i]
           IN  {fresh, Reverse(fresh), <<NoId>> \o fresh} :
           k \in 0..Smaller(MaxKids, maxCats - n)}

\* product ids a category may list: 1 resolves, 2 has an empty PLU, 3 has no
\* PLU, 4 resolves and has no name, 5 is in no catalog the model builds
ProdLists == {<<>>, <<5, 1>>, <<2, 3, 4>>}

\* what GET /channelMenus/<id> may answer
MenuResponses(names, kidLists) ==
    {Response(200, [name |-> nm, channelCategories |-> kl]) : nm \in names, kl \in kidLists}
    \cup {Response(200, [channelCategories |-> kl]) : kl \in kidLists}
    \cup {Response(200, [name |-> nm]) : nm \in names}
    \cup {Response(404, ErrorBody), NotJson(502)}

\* what GET /channelCategories/<id> may answer
CategoryResponses(id, n, maxCats, prodLists) ==
    {Response(200, [name |-> CatName(id), subProducts |-> pl, subCategories |-> kl]) :
        pl \in prodLists, kl \in KidLists(n, maxCats)}
    \cup {Response(200, [subProducts |-> <<1>>]),
          Response(404, ErrorBody),
          NotJson(502)}

\* the fetches of category c so far
FetchesOf(c) == {i \in DOMAIN walk : walk[i].ev = "fetch" /\ walk[i].id = c}

FetchOf(c) == CHOOSE i \in FetchesOf(c) : TRUE

\* malformed category data: two categories whose subCategories may name
\* themselves or each other
GraphIds == {1, 2}

GraphKidLists == {<<>>, <<1>>, <<2>>, <<2, 1>>}

\* what GET /channelCategories/<id> answers over such data: the same answer
\* every time the category is asked for
GraphResponses(id) ==
    IF FetchesOf(id) # {} THEN {walk[FetchOf(id)].resp}
    ELSE {Response(200, [name |-> CatName(id), subProducts |-> pl, subCategories |-> kl]) :
            pl \in {<<>>, <<1>>}, kl \in GraphKidLists}

\* lines 107-111: the dict getCategoryDetails returns for a parsed body
getCategoryDetails(body) ==
    [name |-> Get(body, "name", "Unknown"),
     subProducts |-> Get(body, "subProducts", <<>>),
     subCategories |-> Get(body, "subCategories", <<>>)]

\* lines 186 and 220: the nested ids, looped over in list order
NestedOfReversed(details) == Reverse(details.subCategories)

NestedOf(details) == details.subCategories

\* lines 359: {product.get("id"): product for product in all_products}
ProductsDict(products) ==
    [id \in {products[i].id : i \in DOMAIN products} |->
        products[CHOOSE i \in DOMAIN products :
                    /\ products[i].id = id
                    /\ \A j \in DOMAIN products : products[j].id = id => j <= i]]

\* getProductInfo; the empty dict stands for the None it returns
getProductInfo(productId, products) ==
    IF productId \in DOMAIN products
    THEN [plu |-> Get(products[productId], "plu", None),
          name |-> Get(products[productId], "name", "Unknown")]
    ELSE <<>>

\* lines 198 and 232: product_info and product_info.get("plu")
ResolvesWithoutPlu(product_info) == product_info # <<>>

Resolves(product_info) ==
    product_info # <<>> /\ Truthy(Get(product_info, "plu", None))

\* lines 195-204 and 229-238: the items a category's subProducts add
RECURSIVE EmitItems(_, _, _, _)
EmitItems(subProducts, products, location, category_name) ==
    IF subProducts = <<>> THEN <<>>
    ELSE LET product_info == getProductInfo(Head(subProducts), products)
             rest == EmitItems(Tail(subProducts), products, location, category_name)
         IN  IF Resolves(product_info)
             THEN <<[Location |-> location,
                     PLU |-> product_info.plu,
                     ProductName |-> Get(product_info, "name", "Unknown"),
                     CategoryName |-> category_name]>> \o rest
             ELSE rest

Frame(id, details, top) ==
    [id |-> id, name |-> details.name, pending |-> NestedOf(details),
     subProducts |-> details.subProducts, top |-> top]

\* lines 208-211: the menu is fetched and its channelCategories read
FlattenStart(maxCats) ==
    /\ fState = "called"
    /\ \E resp \in MenuResponses({<<"a">>}, KidLists(0, maxCats)) :
        /\ lastFetch' = Fetched("menu", resp)
        /\ IF ~resp.json
           THEN /\ fState' = "raised"
                /\ UNCHANGED <<todo, menu_body, issued>>
           ELSE /\ fState' = "running"
                /\ todo' = Get(resp.body, "channelCategories", <<>>)
                /\ menu_body' = resp.body
                /\ issued' = Cardinality(NonNull(todo'))
    /\ UNCHANGED <<location_name, stack, all_items, walk, fResult>>
    /\ UNCHANGED <<pureVars, prodVars, invVars, mainVars>>

\* lines 214-221: the next top-level id; an empty id is skipped, any other is
\* fetched; answers[id] is what the endpoint may answer for category id
VisitCategory(answers) ==
    /\ fState = "running"
    /\ stack = <<>>
    /\ todo # <<>>
    /\ todo' = Tail(todo)
    /\ IF Head(todo) = NoId
       THEN UNCHANGED <<fState, stack, walk, issued, lastFetch>>
       ELSE \E resp \in answers[Head(todo)] :
            /\ lastFetch' = Fetched("category", resp)
            /\ walk' = Append(walk, [ev |-> "fetch", id |-> Head(todo), resp |-> resp])
            /\ IF ~resp.json
               THEN /\ fState' = "raised"
                    /\ UNCHANGED <<stack, issued>>
               ELSE /\ stack' = <<Frame(Head(todo), getCategoryDetails(resp.body), TRUE)>>
                    /\ issued' = issued + Cardinality(NonNull(Get(resp.body, "subCategories", <<>>)))
                    /\ UNCHANGED fState
    /\ UNCHANGED <<location_name, all_items, menu_body, fResult>>
    /\ UNCHANGED <<pureVars, prodVars, invVars, mainVars>>

\* lines 181-187, called from lines 192 and 226: the next nested id of the
\* innermost category; an empty id returns at once, any other is fetched.
\* The call needs room on the interpreter's stack (see RecursionLimit)
VisitSubCategory(answers) ==
    /\ fState = "running"
    /\ stack # <<>>
    /\ Len(stack) < MaxDepth
    /\ Last(stack).pending # <<>>
    /\ LET subCategoryId == Head(Last(stack).pending)
           popped == [stack EXCEPT ![Len(stack)].pending = Tail(@)]
       IN  IF subCategoryId = NoId
           THEN /\ stack' = popped
                /\ UNCHANGED <<fState, walk, issued, lastFetch>>
           ELSE \E resp \in answers[subCategoryId] :
                /\ lastFetch' = Fetched("category", resp)
                /\ walk' = Append(walk, [ev |-> "fetch", id |-> subCategoryId, resp |-> resp])
                /\ IF ~resp.json
                   THEN /\ fState' = "raised"
                        /\ UNCHANGED <<stack, issued>>
                   ELSE /\ stack' = Append(popped,
                                Frame(subCategoryId, getCategoryDetails(resp.body), FALSE))
                        /\ issued' = issued + Cardinality(NonNull(Get(resp.body, "subCategories", <<>>)))
                        /\ UNCHANGED fState
    /\ UNCHANGED <<location_name, todo, all_items, menu_body, fResult>>
    /\ UNCHANGED <<pureVars, prodVars, invVars, mainVars>>

\* line 192: the call of processSubCategory that exceeds the interpreter's
\* recursion limit raises RecursionError, which nothing in the walk catches
RecursionLimit ==
    /\ fState = "running"
    /\ Len(stack) = MaxDepth
    /\ Last(stack).pending # <<>>
    /\ fState' = "raised"
    /\ UNCHANGED <<location_name, todo, stack, all_items, walk, menu_body, issued, fResult,
                   lastFetch>>
    /\ UNCHANGED <<pureVars, prodVars, invVars, mainVars>>

\* what the subProducts loop of the innermost category adds to all_items
AddedUnderTopLevelName ==
    EmitItems(Last(stack).subProducts, products_dict, location_name, stack[1].name)

Added == EmitItems(Last(stack).subProducts, products_dict, location_name, Last(stack).name)

\* lines 229-238: the direct products of a top-level category, once its
\* nested ids are done
EmitCategoryProducts ==
    /\ fState = "running"
    /\ stack # <<>>
    /\ Last(stack).pending = <<>>
    /\ Last(stack).top
    /\ all_items' = all_items \o Added
    /\ walk' = Append(walk, [ev |-> "emit", id |-> Last(stack).id, n |-> Len(Added)])
    /\ stack' = SubSeq(stack, 1, Len(stack) - 1)
    /\ UNCHANGED <<fState, location_name, todo, menu_body, issued, fResult, lastFetch>>
    /\ UNCHANGED <<pureVars, prodVars, invVars, mainVars>>

\* lines 195-204: the products of a nested category, once its nested ids are
\* done; processSubCategory returns
EmitSubCategoryProducts ==
    /\ fState = "running"
    /\ stack # <<>>
    /\ Last(stack).pending = <<>>
    /\ ~Last(stack).top
    /\ all_items' = all_items \o Added
    /\ walk' = Append(walk, [ev |-> "emit", id |-> Last(stack).id, n |-> Len(Added)])
    /\ stack' = SubSeq(stack, 1, Len(stack) - 1)
    /\ UNCHANGED <<fState, location_name, todo, menu_body, issued, fResult, lastFetch>>
    /\ UNCHANGED <<pureVars, prodVars, invVars, mainVars>>

\* line 240
FlattenReturn ==
    /\ fState = "running"
    /\ stack = <<>>
    /\ todo = <<>>
    /\ fState' = "returned"
    /\ fResult' = Returned(all_items)
    /\ UNCHANGED <<location_name, todo, stack, all_items, walk, menu_body, issued, lastFetch>>
    /\ UNCHANGED <<pureVars, prodVars, invVars, mainVars>>

NoFetch == [kind |-> "none", status_code |-> 200, json |-> TRUE]

CallGetItemsInChannelMenu(location) ==
    /\ fState = "called"
    /\ location_name = location
    /\ todo = <<>>
    /\ stack = <<>>
    /\ all_items = <<>>
    /\ walk = <<>>
    /\ menu_body = <<>>
    /\ issued = 0
    /\ fResult = NoRet

IdleFlatten ==
    /\ fState = "idle"
    /\ location_name = <<>>
    /\ todo = <<>>
    /\ stack = <<>>
    /\ all_items = <<>>
    /\ walk = <<>>
    /\ menu_body = <<>>
    /\ issued = 0
    /\ fResult = NoRet

----------------------------------------------------------------------------
(* The Calculate handler, lines 340-512 *)

UnknownMenu == <<"U", "n", "k", "n", "o", "w", "n", " ", "M", "e", "n", "u">>

\* what GET /channelMenus?where=... may answer: up to maxMenus menus
MenuIdsResponses(maxMenus) ==
    {Response(200, [_items |-> [i \in 1..k |-> [_id |-> "M" \o ToString(i)]]]) :
        k \in 0..maxMenus}
    \cup {Response(404, ErrorBody), NotJson(502)}

\* what GET /locations?where=... may answer
LocationsResponses(feeds) ==
    {Response(200, [_items |-> f]) : f \in feeds}
    \cup {Response(404, ErrorBody), NotJson(502)}

\* lines 341-358: the token is fetched; without it nothing else runs, with it
\* getAllProducts is called
Calculate ==
    /\ phase = "idle"
    /\ \E token \in BOOLEAN :
        IF token
        THEN /\ phase' = "products"
             /\ pState' = "running"
             /\ page' = 1
        ELSE /\ phase' = "no_token"
             /\ UNCHANGED <<pState, page>>
    /\ UNCHANGED <<all_products, pReqs, pResps, pResult>>
    /\ UNCHANGED <<products_dict, inventory_lookup, menu_ids, idx, menu_name,
                   location_info, menus_without_location, shown>>
    /\ UNCHANGED <<pureVars, invVars, flatVars, lastFetch>>

\* a call that returned leaves nothing behind but the value it returned
DropProductsFrame ==
    /\ pState' = "idle"
    /\ page' = 0
    /\ all_products' = <<>>
    /\ pReqs' = <<>>
    /\ pResps' = <<>>
    /\ pResult' = NoRet

DropInventoryFrame ==
    /\ iState' = "idle"
    /\ inv_page' = 0
    /\ inventory_items' = <<>>
    /\ iReqs' = <<>>
    /\ iResps' = <<>>
    /\ iResult' = NoRet

DropFlattenFrame ==
    /\ fState' = "idle"
    /\ location_name' = <<>>
    /\ todo' = <<>>
    /\ stack' = <<>>
    /\ all_items' = <<>>
    /\ walk' = <<>>
    /\ menu_body' = <<>>
    /\ issued' = 0
    /\ fResult' = NoRet

\* lines 358-360 and 377: getAllProducts returned, getInventory is called
AfterProducts ==
    /\ phase = "products"
    /\ pState = "returned"
    /\ products_dict' = ProductsDict(pResult.val)
    /\ phase' = "inventory"
    /\ iState' = "running"
    /\ inv_page' = 1
    /\ UNCHANGED <<inventory_items, iReqs, iResps, iResult>>
    /\ DropProductsFrame
    /\ UNCHANGED <<inventory_lookup, menu_ids, idx, menu_name, location_info,
                   menus_without_location, shown>>
    /\ UNCHANGED <<pureVars, flatVars, lastFetch>>

Fail ==
    /\ phase' = "failed"
    /\ UNCHANGED <<products_dict, inventory_lookup, menu_ids, idx, menu_name,
                   location_info, menus_without_location, shown>>

\* lines 366-369 and 509-512: getAllProducts raised
ProductsFailed ==
    /\ phase = "products"
    /\ pState = "raised"
    /\ Fail
    /\ UNCHANGED <<pureVars, prodVars, invVars, flatVars, lastFetch>>

\* lines 377-380: getInventory returned
AfterInventory ==
    /\ phase = "inventory"
    /\ iState = "returned"
    /\ inventory_lookup' = buildInventoryLookup(iResult.val)
    /\ phase' = "menus"
    /\ DropInventoryFrame
    /\ UNCHANGED <<products_dict, menu_ids, idx, menu_name, location_info,
                   menus_without_location, shown>>
    /\ UNCHANGED <<pureVars, prodVars, flatVars, lastFetch>>

\* lines 381-384 and 509-512: getInventory raised
InventoryFailed ==
    /\ phase = "inventory"
    /\ iState = "raised"
    /\ Fail
    /\ UNCHANGED <<pureVars, prodVars, invVars, flatVars, lastFetch>>

\* lines 389-400 and 506-507: getAllChannelMenus (lines 95-101)
FetchMenuIds(maxMenus) ==
    /\ phase = "menus"
    /\ \E resp \in MenuIdsResponses(maxMenus) :
        /\ lastFetch' = Fetched("menu_ids", resp)
        /\ IF ~resp.json
           THEN Fail
           ELSE LET items == Get(resp.body, "_items", <<>>)
                IN  /\ menu_ids' = [i \in DOMAIN items |-> Get(items[i], "_id", None)]
                    /\ menus_without_location' = <<>>
                    /\ IF menu_ids' = <<>>
                       THEN /\ phase' = "done"
                            /\ UNCHANGED idx
                       ELSE /\ phase' = "menu_name"
                            /\ idx' = 1
                    /\ UNCHANGED <<products_dict, inventory_lookup, menu_name,
                                   location_info, shown>>
    /\ UNCHANGED <<pureVars, prodVars, invVars, flatVars>>

\* lines 401-403: the menu is fetched for its name
FetchMenuName(names) ==
    /\ phase = "menu_name"
    /\ \E resp \in MenuResponses(names, {<<>>}) :
        /\ lastFetch' = Fetched("menu", resp)
        /\ IF ~resp.json
           THEN Fail
           ELSE /\ menu_name' = Get(resp.body, "name", UnknownMenu)
                /\ phase' = "location"
                /\ UNCHANGED <<products_dict, inventory_lookup, menu_ids, idx,
                               location_info, menus_without_location, shown>>
    /\ UNCHANGED <<pureVars, prodVars, invVars, flatVars>>

\* lines 409-423: getLocationNameAndId (lines 244-253), then
\* getItemsInChannelMenu is called
ResolveLocation(feeds) ==
    /\ phase = "location"
    /\ \E resp \in LocationsResponses(feeds) :
        /\ lastFetch' = Fetched("locations", resp)
        /\ IF ~resp.json
           THEN /\ Fail
                /\ UNCHANGED flatVars
           ELSE /\ location_info' = getLocationNameAndId(menu_name, resp.body)
                /\ phase' = "items"
                /\ fState' = "called"
                /\ location_name' = location_info'.name
                /\ todo' = <<>>
                /\ stack' = <<>>
                /\ all_items' = <<>>
                /\ walk' = <<>>
                /\ menu_body' = <<>>
                /\ issued' = 0
                /\ fResult' = NoRet
                /\ UNCHANGED <<products_dict, inventory_lookup, menu_ids, idx,
                               menu_name, menus_without_location, shown>>
    /\ UNCHANGED <<pureVars, prodVars, invVars>>

\* lines 480-485: the entry of a menu without location id
UnmatchedEntry(items) ==
    [menu_name |-> menu_name, menu_id |-> menu_ids[idx],
     location_name |-> location_info.name, item_count |-> Len(items)]

\* lines 425-487: the items are shown and, with a location id, checked
\* against the inventory; lines 400 and 489-505: the next menu or the summary
FinishMenu ==
    /\ phase = "items"
    /\ fState = "returned"
    /\ LET items == fResult.val
           location_id == location_info.id
       IN  /\ shown' = Append(shown,
                [menu_id |-> menu_ids[idx],
                 menu_name |-> menu_name,
                 location_name |-> location_info.name,
                 location_id |-> location_id,
                 item_count |-> Len(items),
                 missing |-> IF items # <<>> /\ Truthy(location_id)
                             THEN Returned(checkMenuItemsInventory(items, location_id,
                                                                   inventory_lookup))
                             ELSE NoRet])
           /\ menus_without_location' =
                IF items # <<>> /\ ~Truthy(location_id)
                THEN Append(menus_without_location, UnmatchedEntry(items))
                ELSE menus_without_location
    /\ IF idx < Len(menu_ids)
       THEN /\ idx' = idx + 1
            /\ phase' = "menu_name"
       ELSE /\ phase' = "done"
            /\ UNCHANGED idx
    /\ DropFlattenFrame
    /\ UNCHANGED <<products_dict, inventory_lookup, menu_ids, menu_name, location_info>>
    /\ UNCHANGED <<pureVars, prodVars, invVars, lastFetch>>

\* lines 509-512: getItemsInChannelMenu raised
MenuFailed ==
    /\ phase = "items"
    /\ fState = "raised"
    /\ Fail
    /\ UNCHANGED <<pureVars, prodVars, invVars, flatVars, lastFetch>>

IdleMain ==
    /\ phase = "idle"
    /\ products_dict = <<>>
    /\ inventory_lookup = {}
    /\ menu_ids = <<>>
    /\ idx = 0
    /\ menu_name = <<>>
    /\ location_info = [name |-> <<>>, id |-> None]
    /\ menus_without_location = <<>>
    /\ shown = <<>>

----------------------------------------------------------------------------
(* Pure-function harness: the arguments are drawn in Init, one action       *)
(* applies the function.                                                    *)

PluValues == {"PLU1", "PLU2", "", None}
LocationIds == {"L1", "L2"}

\* flattened items as processSubCategory builds them, and items with an
\* empty, null or missing PLU
MenuItemPool ==
    {[Location |-> <<"a">>, PLU |-> p, ProductName |-> "n", CategoryName |-> "c"] :
        p \in PluValues}
    \cup {[Location |-> <<"a">>, ProductName |-> "n", CategoryName |-> "c"]}

LocEntryPool == {[location |-> l] : l \in LocationIds \cup {""}} \cup {<<>>}

InventoryRecordPool ==
    {[plu |-> p, locations |-> ls] :
        p \in PluValues, ls \in SeqsUpTo(LocEntryPool, MaxLocEntries)}
    \cup {[plu |-> "PLU1"], [locations |-> <<[location |-> "L1"]>>]}

Names == SeqsUpTo(Chars, MaxNameLen)

\* location names: the empty name and the names of full length
LocationNames == {<<>>} \cup [1..MaxNameLen -> Chars]

\* the k-th location of the feed has id "L<k>"; a location may lack its name
LocationFeeds ==
    UNION {{[i \in 1..k |->
                IF nm[i] = <<"-">> THEN [_id |-> "L" \o ToString(i)]
                ELSE [_id |-> "L" \o ToString(i), name |-> nm[i]]] :
            nm \in [1..k -> LocationNames \cup {<<"-">>}]} : k \in 0..MaxLocations}

InitCheck ==
    /\ \E items \in SeqsUpTo(MenuItemPool, MaxItems),
          loc \in LocationIds \cup {None},
          lookup \in SUBSET ({"PLU1", "PLU2"} \X LocationIds) :
            call = [fn |-> "checkMenuItemsInventory", menu_items |-> items,
                    location_id |-> loc, inventory_lookup |-> lookup]
    /\ ret = NoRet

InitLookup ==
    /\ \E inv \in SeqsUpTo(InventoryRecordPool, MaxRecords) :
            call = [fn |-> "buildInventoryLookup", inventory |-> inv]
    /\ ret = NoRet

InitResolve ==
    /\ \E nm \in Names, feed \in LocationFeeds :
            call = [fn |-> "getLocationNameAndId", menuName |-> nm,
                    response |-> [_items |-> feed]]
    /\ ret = NoRet


CallCheck ==
    /\ call.fn = "checkMenuItemsInventory"
    /\ ret = NoRet
    /\ ret' = Returned(checkMenuItemsInventory(call.menu_items, call.location_id,
                                               call.inventory_lookup))
    /\ UNCHANGED <<call, prodVars, invVars, flatVars, mainVars, lastFetch>>

CallLookup ==
    /\ call.fn = "buildInventoryLookup"
    /\ ret = NoRet
    /\ ret' = Returned(buildInventoryLookup(call.inventory))
    /\ UNCHANGED <<call, prodVars, invVars, flatVars, mainVars, lastFetch>>

CallResolve ==
    /\ call.fn = "getLocationNameAndId"
    /\ ret = NoRet
    /\ ret' = Returned(getLocationNameAndId(call.menuName, call.response))
    /\ UNCHANGED <<call, prodVars, invVars, flatVars, mainVars, lastFetch>>

IdlePure ==
    /\ call = [fn |-> "none"]
    /\ ret = NoRet

----------------------------------------------------------------------------
(* Specifications *)

\* the three pure functions, each applied once to arguments drawn in Init
InitPure ==
    /\ InitCheck \/ InitLookup \/ InitResolve
    /\ IdleProducts /\ IdleInventory /\ IdleFlatten /\ IdleMain
    /\ lastFetch = NoFetch

NextPure == CallCheck \/ CallLookup \/ CallResolve

SpecPure == InitPure /\ [][NextPure]_vars

\* getAllProducts alone
InitProducts ==
    /\ CallGetAllProducts
    /\ IdlePure /\ IdleInventory /\ IdleFlatten /\ IdleMain
    /\ lastFetch = NoFetch

NextProducts == ProductsPage(MaxPages)

SpecProducts == InitProducts /\ [][NextProducts]_vars

\* getInventory alone
InitInventory ==
    /\ CallGetInventory
    /\ IdlePure /\ IdleProducts /\ IdleFlatten /\ IdleMain
    /\ lastFetch = NoFetch

NextInventory == InventoryPage(MaxPages)

SpecInventory == InitInventory /\ [][NextInventory]_vars

\* the products with ids 1..n, as getAllProducts returns them
CatalogOf(n) == [i \in 1..n |-> ProductInfo(RawProduct(i))]

\* getItemsInChannelMenu alone, with the catalog of products 1..4
InitFlatten ==
    /\ CallGetItemsInChannelMenu(<<"A">>)
    /\ IdlePure /\ IdleProducts /\ IdleInventory
    /\ phase = "idle"
    /\ products_dict = ProductsDict(CatalogOf(4))
    /\ inventory_lookup = {}
    /\ menu_ids = <<>>
    /\ idx = 0
    /\ menu_name = <<>>
    /\ location_info = [name |-> <<>>, id |-> None]
    /\ menus_without_location = <<>>
    /\ shown = <<>>
    /\ lastFetch = NoFetch

\* the categories of a tree of up to MaxCats categories; a tree this deep
\* stays below the recursion limit
TreeAnswers == [id \in 1..MaxCats |-> CategoryResponses(id, issued, MaxCats, ProdLists)]

NextFlatten ==
    \/ FlattenStart(MaxCats)
    \/ VisitCategory(TreeAnswers)
    \/ VisitSubCategory(TreeAnswers)
    \/ EmitCategoryProducts
    \/ EmitSubCategoryProducts
    \/ FlattenReturn

SpecFlatten == InitFlatten /\ [][NextFlatten]_vars

\* getItemsInChannelMenu over malformed category data; the interpreter's
\* recursion limit is the only bound on the nesting of processSubCategory
GraphAnswers == [id \in GraphIds |-> GraphResponses(id)]

NextGraph ==
    \/ FlattenStart(Cardinality(GraphIds))
    \/ VisitCategory(GraphAnswers)
    \/ VisitSubCategory(GraphAnswers)
    \/ RecursionLimit
    \/ EmitCategoryProducts
    \/ EmitSubCategoryProducts
    \/ FlattenReturn

SpecGraph == InitFlatten /\ [][NextGraph]_vars

\* one click on Calculate, against an account of up to two pages of products
\* and of inventory, two menus of up to two categories each, and one location
RunLimits == [pages |-> 2, cats |-> 2, menus |-> 2]
RunProdLists == {<<5, 1>>}
RunMenuNames == {<<"a">>, <<"b", "b">>}
RunLocationFeeds == {<<[_id |-> "L1", name |-> <<"b", "A">>]>>}

RunAnswers ==
    [id \in 1..RunLimits.cats |-> CategoryResponses(id, issued, RunLimits.cats, RunProdLists)]

Init ==
    /\ IdlePure /\ IdleProducts /\ IdleInventory /\ IdleFlatten /\ IdleMain
    /\ lastFetch = NoFetch

Next ==
    \/ Calculate
    \/ ProductsPage(RunLimits.pages)
    \/ AfterProducts
    \/ ProductsFailed
    \/ InventoryPage(RunLimits.pages)
    \/ AfterInventory
    \/ InventoryFailed
    \/ FetchMenuIds(RunLimits.menus)
    \/ FetchMenuName(RunMenuNames)
    \/ ResolveLocation(RunLocationFeeds)
    \/ FlattenStart(RunLimits.cats)
    \/ VisitCategory(RunAnswers)
    \/ VisitSubCategory(RunAnswers)
    \/ EmitCategoryProducts
    \/ EmitSubCategoryProducts
    \/ FlattenReturn
    \/ FinishMenu
    \/ MenuFailed

Spec == Init /\ [][Next]_vars

----------------------------------------------------------------------------
(* Claims about the pure functions, checked under SpecPure *)

Min(S) == CHOOSE i \in S : \A j \in S : i <= j

\* the k-th smallest element of a set of indices
NthOf(S, k) == CHOOSE i \in S : Cardinality({j \in S : j <= i}) = k

\* result is the subsequence of items at the indices keep, in input order
IsFilterOf(result, items, keep) ==
    /\ Len(result) = Cardinality(keep)
    /\ \A k \in 1..Len(result) : result[k] = items[NthOf(keep, k)]

CheckReturned == call.fn = "checkMenuItemsInventory" /\ ret.returned

PairAbsent(item) ==
    <<Get(item, "PLU", None), call.location_id>> \notin call.inventory_lookup

\* C1 as stated: the result of checkMenuItemsInventory is the subsequence of
\* the input items, in input order, made of exactly the items whose
\* (PLU, locationId) pair is absent from the lookup.
C1_Original ==
    CheckReturned =>
        IsFilterOf(ret.val, call.menu_items,
                   {i \in DOMAIN call.menu_items : PairAbsent(call.menu_items[i])})

\* C1 amended: the result of checkMenuItemsInventory is the subsequence of the
\* input items, in input order, made of exactly the items whose PLU is
\* non-empty and whose (PLU, locationId) pair is absent from the lookup.
C1_SubsetFilter ==
    CheckReturned =>
        IsFilterOf(ret.val, call.menu_items,
                   {i \in DOMAIN call.menu_items :
                        /\ Truthy(Get(call.menu_items[i], "PLU", None))
                        /\ PairAbsent(call.menu_items[i])})

\* an item is kept, an item with a stocked pair is dropped
C1_Witness ==
    /\ CheckReturned
    /\ Len(call.menu_items) = 2
    /\ Len(ret.val) = 1
    /\ \E i \in DOMAIN call.menu_items :
            <<Get(call.menu_items[i], "PLU", None), call.location_id>>
                \in call.inventory_lookup

LookupReturned == call.fn = "buildInventoryLookup" /\ ret.returned

RecordsWithPlu ==
    {i \in DOMAIN call.inventory : Truthy(Get(call.inventory[i], "plu", None))}

EntriesOf(record) == Get(record, "locations", <<>>)

\* C7 as stated: the lookup is exactly the set of (plu, locationId) pairs over
\* every location entry of every record whose PLU is non-empty.
C7_Original ==
    LookupReturned =>
        ret.val = UNION {{<<call.inventory[i].plu, Get(EntriesOf(call.inventory[i])[j], "location", None)>> :
                            j \in DOMAIN EntriesOf(call.inventory[i])} : i \in RecordsWithPlu}

\* C7 amended: the lookup is exactly the set of (plu, locationId) pairs over
\* every location entry with a non-empty location id of every record whose
\* PLU is non-empty; so no pair comes from a record with an empty or null PLU
\* and the lookup has at most as many pairs as the records have entries.
C7_ExactLookup ==
    LookupReturned =>
        /\ \A plu \in PluValues, loc \in LocationIds \cup {"", None} :
                <<plu, loc>> \in ret.val <=>
                    \E i \in RecordsWithPlu :
                        /\ call.inventory[i].plu = plu
                        /\ Truthy(loc)
                        /\ \E j \in DOMAIN EntriesOf(call.inventory[i]) :
                                Get(EntriesOf(call.inventory[i])[j], "location", None) = loc
        /\ ret.val \subseteq PluValues \X (LocationIds \cup {"", None})
        /\ \A pair \in ret.val : Truthy(pair[1])
        /\ LET RECURSIVE Total(_)
               Total(k) == IF k = 0 THEN 0
                           ELSE Len(EntriesOf(call.inventory[k])) + Total(k - 1)
           IN  Cardinality(ret.val) <= Total(Len(call.inventory))

\* a record without PLU that lists a location, and a record with PLU whose
\* pair is in the lookup
C7_Witness ==
    /\ LookupReturned
    /\ \E i \in DOMAIN call.inventory :
            /\ ~Truthy(Get(call.inventory[i], "plu", None))
            /\ Len(EntriesOf(call.inventory[i])) > 0
    /\ Cardinality(ret.val) = 1

ResolveReturned == call.fn = "getLocationNameAndId" /\ ret.returned

LocationFeed == call.response["_items"]

\* locations whose name contains the menu name, ignoring case
ContainingLocations ==
    {i \in DOMAIN LocationFeed :
        /\ "name" \in DOMAIN LocationFeed[i]
        /\ Contains(Lower(LocationFeed[i].name), Lower(call.menuName))}

ResolvesToFirstOf(matching) ==
    /\ matching # {} =>
            ret.val = [name |-> LocationFeed[Min(matching)].name,
                       id |-> LocationFeed[Min(matching)]["_id"]]
    /\ (ret.val.name = NameNotFound /\ ret.val.id = None) <=> matching = {}

\* C9 as stated: getLocationNameAndId returns the name and id of the first
\* location, in feed order, whose name contains the menu name as a
\* case-insensitive substring, and the sentinel ("Name Not Found", no id)
\* if and only if no location name contains the menu name.
C9_Original == ResolveReturned => ResolvesToFirstOf(ContainingLocations)

\* C9 amended: getLocationNameAndId returns the name and id of the first
\* location, in feed order, whose name is non-empty and contains the menu name
\* as a case-insensitive substring, and the sentinel ("Name Not Found", no id)
\* if and only if no location has such a name.
C9_FirstMatch ==
    ResolveReturned =>
        ResolvesToFirstOf({i \in ContainingLocations : LocationFeed[i].name # <<>>})

\* two locations match, the first only when case is ignored
C9_Witness ==
    /\ ResolveReturned
    /\ Cardinality(ContainingLocations) = 2
    /\ ~Contains(LocationFeed[1].name, call.menuName)
    /\ ret.val.id = "L1"

----------------------------------------------------------------------------
(* Claims about the paginated fetches *)

\* a response that carries a next-page continuation
CarriesNext(resp) ==
    /\ "_links" \in DOMAIN resp.body
    /\ "next" \in DOMAIN resp.body["_links"]

ItemsOn(resp) == IF "_items" \in DOMAIN resp.body THEN resp.body["_items"] ELSE <<>>

\* the items of the first k responses, in page order
RECURSIVE ItemsOfPages(_, _)
ItemsOfPages(resps, k) ==
    IF k = 0 THEN <<>> ELSE ItemsOfPages(resps, k - 1) \o ItemsOn(resps[k])

AsProducts(items) == [k \in DOMAIN items |-> ProductInfo(items[k])]

\* C3 as stated: when the server returns n pages that carry a continuation and
\* then one page without, getAllProducts returns the concatenation of the
\* items of the n continuation-bearing pages.
C3_Original ==
    pState = "returned" =>
        pResult.val = AsProducts(ItemsOfPages(pResps, Len(pResps) - 1))

\* C3 amended: getAllProducts requests pages 1, 2, ... in increasing order, goes
\* on exactly as long as the page received carries a continuation, so that n
\* continuation-bearing pages followed by one page without make exactly n+1
\* requests, and returns the concatenation, in page order, of the items of all
\* n+1 pages, the last page's included.
C3_Pagination ==
    pState \in {"running", "returned"} =>
        /\ pReqs = [i \in 1..Len(pResps) |-> i]
        /\ \A i \in DOMAIN pResps :
                CarriesNext(pResps[i]) <=> (i < Len(pResps) \/ pState = "running")
        /\ pState = "returned" =>
                pResult.val = AsProducts(ItemsOfPages(pResps, Len(pResps)))

\* the spec's case: three pages with a continuation, a fourth without, every
\* page with items
C3_Witness ==
    /\ pState = "returned"
    /\ pReqs = <<1, 2, 3, 4>>
    /\ \A i \in 1..4 : Len(ItemsOn(pResps[i])) = MaxPageItems
    /\ Len(pResult.val) = 4 * MaxPageItems

\* C4: getInventory requests pages 1, 2, ... in increasing order and goes on
\* exactly until the first page whose items array is empty, whatever
\* continuation link the pages carry: with pages 1..k non-empty and page k+1
\* empty it makes exactly k+1 requests and returns the concatenation of the
\* items of pages 1..k in order.
C4_EmptyPageStops ==
    iState \in {"running", "returned"} =>
        /\ iReqs = [i \in 1..Len(iResps) |-> i]
        /\ \A i \in DOMAIN iResps :
                ItemsOn(iResps[i]) = <<>> <=> (i = Len(iResps) /\ iState = "returned")
        /\ inventory_items = ItemsOfPages(iResps, Len(iReqs))
        /\ iState = "returned" =>
                iResult.val = ItemsOfPages(iResps, Len(iResps) - 1)

\* a non-empty page without continuation link did not stop the fetch, an empty
\* page with one did
C4_Witness ==
    /\ iState = "returned"
    /\ Len(iReqs) = 3
    /\ ~CarriesNext(iResps[1])
    /\ ~CarriesNext(iResps[2])
    /\ CarriesNext(iResps[3])
    /\ Len(iResult.val) = 2 * MaxPageItems

\* a page with a non-200 status or a payload that carries an error field
BadPage(resp) ==
    \/ resp.status_code # 200
    \/ resp.json /\ ("error" \in DOMAIN resp.body \/ "_error" \in DOMAIN resp.body)

NoMenuTouched ==
    /\ menu_ids = <<>>
    /\ shown = <<>>
    /\ menus_without_location = <<>>
    /\ fState = "idle"
    /\ lastFetch = NoFetch

\* C5: a page of getAllProducts or getInventory with a non-200 status or an
\* error field is the last page requested: the fetch raised, handed no list to
\* its caller, and the run failed without fetching inventory (for a products
\* page) or any menu.
C5_AllOrNothing ==
    /\ \A i \in DOMAIN pResps :
            BadPage(pResps[i]) =>
                /\ i = Len(pResps)
                /\ Len(pReqs) = i
                /\ pState = "raised"
                /\ pResult = NoRet
                /\ phase \in {"products", "failed"}
                /\ products_dict = <<>>
                /\ iState = "idle"
                /\ iReqs = <<>>
                /\ NoMenuTouched
    /\ \A i \in DOMAIN iResps :
            BadPage(iResps[i]) =>
                /\ i = Len(iResps)
                /\ Len(iReqs) = i
                /\ iState = "raised"
                /\ iResult = NoRet
                /\ phase \in {"inventory", "failed"}
                /\ inventory_lookup = {}
                /\ NoMenuTouched

\* the second page of products failed after a first page with items, and the
\* run has ended
C5_Witness ==
    /\ phase = "failed"
    /\ pState = "raised"
    /\ Len(pReqs) = 2
    /\ BadPage(pResps[2])
    /\ all_products # <<>>
    /\ pResult = NoRet

----------------------------------------------------------------------------
(* Claims about the category walk *)

IsId(id) == id # NoId

\* the categories the menu and the categories fetched refer to
TopIds == SelectSeq(Get(menu_body, "channelCategories", <<>>), IsId)

KidIdsIn(resp) ==
    IF resp.json /\ "subCategories" \in DOMAIN resp.body
    THEN SelectSeq(resp.body["subCategories"], IsId)
    ELSE <<>>

Referenced ==
    Range(TopIds)
    \cup UNION {Range(KidIdsIn(walk[i].resp)) : i \in {j \in DOMAIN walk : walk[j].ev = "fetch"}}

EmitsOf(c) == {i \in DOMAIN walk : walk[i].ev = "emit" /\ walk[i].id = c}

EmitOf(c) == CHOOSE i \in EmitsOf(c) : TRUE

\* the walks of the categories ids, taken in list order, fill walk[lo..hi]
\* one after the other
Tiles(ids, lo, hi) ==
    IF ids = <<>> THEN hi = lo - 1
    ELSE /\ FetchOf(ids[1]) = lo
         /\ EmitOf(ids[Len(ids)]) = hi
         /\ \A k \in 1..(Len(ids) - 1) : FetchOf(ids[k + 1]) = EmitOf(ids[k]) + 1

\* C2: when getItemsInChannelMenu returns on a category tree, it has fetched
\* every category the menu reaches exactly once; the top-level ids were walked
\* in feed order, and for every category the walk is: its fetch, then the
\* walks of its nested ids one after the other in feed order, then its own
\* products.
C2_DepthFirst ==
    fState = "returned" =>
        /\ \A c \in Referenced : Cardinality(FetchesOf(c)) = 1 /\ Cardinality(EmitsOf(c)) = 1
        /\ \A i \in DOMAIN walk : walk[i].id \in Referenced
        /\ Tiles(TopIds, 1, Len(walk))
        /\ \A c \in Referenced :
                Tiles(KidIdsIn(walk[FetchOf(c)].resp), FetchOf(c) + 1, EmitOf(c) - 1)

\* a category whose two nested ids come in descending order, with products of
\* its own and in both nested categories
C2_Witness ==
    /\ fState = "returned"
    /\ \E c \in Referenced :
        /\ KidIdsIn(walk[FetchOf(c)].resp) = <<3, 2>>
        /\ walk[EmitOf(c)].n > 0
        /\ walk[EmitOf(3)].n > 0
        /\ walk[EmitOf(2)].n > 0

\* the product references of the categories reached: <<category, position>>
ProductRefs ==
    UNION {{<<c, k>> : k \in DOMAIN Get(walk[FetchOf(c)].resp.body, "subProducts", <<>>)} :
            c \in {d \in Referenced : FetchesOf(d) # {}}}

RefId(ref) == walk[FetchOf(ref[1])].resp.body["subProducts"][ref[2]]

AbsentRefs == {r \in ProductRefs : RefId(r) \notin DOMAIN products_dict}

NoPluRefs ==
    {r \in ProductRefs \ AbsentRefs : products_dict[RefId(r)].plu \in {None, ""}}

\* C8: a product id that is not in the product index, or whose product has a
\* null or empty PLU, raises nothing and adds no item: the walk raises only on
\* a body that is no JSON, and when it returns the number of items is the
\* number of product references in the categories reached less the number of
\* such references, and every item has a non-empty PLU.
C8_UnresolvedDropped ==
    /\ fState = "raised" => ~lastFetch.json
    /\ fState = "returned" =>
        /\ Len(fResult.val) =
                Cardinality(ProductRefs) - Cardinality(AbsentRefs) - Cardinality(NoPluRefs)
        /\ \A i \in DOMAIN fResult.val : fResult.val[i].PLU \notin {None, ""}

\* references of both kinds were dropped next to references that resolved
C8_Witness ==
    /\ fState = "returned"
    /\ AbsentRefs # {}
    /\ Cardinality(NoPluRefs) = 2
    /\ Len(fResult.val) = 3

----------------------------------------------------------------------------
(* Claims about the Calculate handler *)

\* C6 as stated: a single-shot fetch (menu ids, menu, locations, category)
\* that is answered with a non-success status fails: the run, or the walk it
\* belongs to, raises instead of going on with default fields.
C6_NonSuccessRaises ==
    lastFetch.status_code # 200 => phase = "failed" \/ fState = "raised"

\* C10 as stated: when the run completes, a menu is in the
\* menus-without-location list if and only if no location id was resolved for
\* it, menus without items included, with its name, id, resolved display name
\* and item count.
C10_UnresolvedReport ==
    phase = "done" =>
        \A i \in DOMAIN shown :
            shown[i].location_id \in {None, ""} <=>
                \E j \in DOMAIN menus_without_location :
                    menus_without_location[j] =
                        [menu_name |-> shown[i].menu_name,
                         menu_id |-> shown[i].menu_id,
                         location_name |-> shown[i].location_name,
                         item_count |-> shown[i].item_count]

----------------------------------------------------------------------------
(* Claims about the category name of an item *)

\* the name getCategoryDetails gave for category c when it was fetched
NameOf(c) == getCategoryDetails(walk[FetchOf(c)].resp.body).name

\* the categories fetched whose subCategories list holds c, and theirs
ParentsOf(c) ==
    {walk[i].id : i \in {j \in DOMAIN walk :
                            walk[j].ev = "fetch" /\ c \in Range(KidIdsIn(walk[j].resp))}}

RECURSIVE AncestorsOf(_)
AncestorsOf(c) == ParentsOf(c) \cup UNION {AncestorsOf(p) : p \in ParentsOf(c)}

\* the number of items added by the emissions before walk[k]
RECURSIVE EmittedBefore(_)
EmittedBefore(k) ==
    IF k <= 1 THEN 0
    ELSE EmittedBefore(k - 1) + (IF walk[k - 1].ev = "emit" THEN walk[k - 1].n ELSE 0)

\* the positions in all_items of the items the emission walk[k] added
ItemsOfEmit(k) == (EmittedBefore(k) + 1)..(EmittedBefore(k) + walk[k].n)

Emits == {k \in DOMAIN walk : walk[k].ev = "emit"}

\* the category fetched last before walk[k]
LastFetchedBefore(k) ==
    walk[CHOOSE i \in 1..(k - 1) :
            /\ walk[i].ev = "fetch"
            /\ \A j \in (i + 1)..(k - 1) : walk[j].ev # "fetch"].id

\* C11 as stated: every item carries the name of the category whose
\* subProducts list held its product, and that category is the one fetched
\* last before the item was emitted.
C11_Original ==
    \A k \in Emits : \A i \in ItemsOfEmit(k) :
        /\ all_items[i].CategoryName = NameOf(walk[k].id)
        /\ LastFetchedBefore(k) = walk[k].id

\* C11 amended: every item carries the name of the category whose subProducts
\* list held its product, as getCategoryDetails gave it, and the name of none
\* of that category's ancestors, at every depth; the items of the walk are
\* exactly the items of its emissions.
C11_ImmediateCategory ==
    /\ \A k \in Emits : \A i \in ItemsOfEmit(k) :
        /\ i \in DOMAIN all_items
        /\ all_items[i].CategoryName = NameOf(walk[k].id)
        /\ \A a \in AncestorsOf(walk[k].id) : all_items[i].CategoryName # NameOf(a)
    /\ Len(all_items) = EmittedBefore(Len(walk) + 1)

\* a top-level category, a category nested in it and a category nested in
\* that one have all added items
C11_Witness ==
    /\ fState = "returned"
    /\ \E c \in Range(TopIds) : \E d \in Range(KidIdsIn(walk[FetchOf(c)].resp)) :
        \E e \in Range(KidIdsIn(walk[FetchOf(d)].resp)) :
            /\ walk[EmitOf(c)].n > 0
            /\ walk[EmitOf(d)].n > 0
            /\ walk[EmitOf(e)].n > 0

----------------------------------------------------------------------------
(* Claims about malformed category data *)

\* C12 as stated: the walk guards against revisits, so that it ends on
\* cyclic category data instead of recursing without bound: no category is
\* entered while it is being walked, and the walk never dies of the
\* interpreter's recursion limit (it raises on a body that is no JSON only).
C12_GuardsRevisits ==
    /\ \A i, j \in DOMAIN stack : i < j => stack[i].id # stack[j].id
    /\ fState = "raised" => ~lastFetch.json
====
